---------------------------- MODULE Spec2Model ----------------------------
(* Model of src/api/screenshot_processor.py: the line assembly loop of     *)
(* ScreenshotProcessor.extract_text_with_layout, the font size estimate    *)
(* and the role classification applied to every assembled line.            *)
(*                                                                         *)
(* A text is a sequence of one-character strings, so that strip(), split() *)
(* and isupper() are computed rather than assumed. The OCR result `data`   *)
(* (parallel lists in the source) is a sequence of token records.          *)
EXTENDS Integers, Sequences, FiniteSets, TLC

VARIABLES data, i, current_line, text_blocks, k, pc

\* create_word_document: the document under construction, the values lines
\* 151-153 computed for each paragraph, the running state and the loop index
VARIABLES doc, directives, last_top, last_block_num, index

\* process_image called again on the same image: the call number, the
\* document saved by this call and the one saved by the first call
VARIABLES run, output, first_output

\* main.py: per request the uploaded files, the handler's position, its
\* file_id, upload_paths and response; the two directories; the uuids
\* issued so far; the requests that called the processor; the response of
\* the last download
VARIABLES files, rpc, file_id, upload_paths, response, uploads, outputs,
          issued, invoked, download

extract_vars == <<data, i, current_line, text_blocks, k, pc>>

document_vars == <<doc, directives, last_top, last_block_num, index>>

run_vars == <<run, output, first_output>>

api_vars == <<files, rpc, file_id, upload_paths, response, uploads, outputs,
              issued, invoked, download>>

vars == <<extract_vars, document_vars, run_vars, api_vars>>

-----------------------------------------------------------------------------
(* Bounds of the checked inputs *)

\* longest token sequence drawn from TokenSet
MaxTokens == 3
\* longest run of identical words (crosses the 6- and 15-word limits)
MaxWords == 17
\* heights range over -HeightBelow .. MaxHeight
HeightBelow == 3
MaxHeight == 30

-----------------------------------------------------------------------------
(* Program constants *)

CONFIDENCE_THRESHOLD == 30

\* self.font_size_thresholds
font_size_thresholds == [heading1 |-> 22, heading2 |-> 18, heading3 |-> 14, body |-> 11]

-----------------------------------------------------------------------------
(* str helpers of the Python runtime *)

Whitespace == {" "}

UpperChars == {"A","B","C","D","E","F","G","H","I","J","K","L","M",
               "N","O","P","Q","R","S","T","U","V","W","X","Y","Z"}

LowerChars == {"a","b","c","d","e","f","g","h","i","j","k","l","m",
               "n","o","p","q","r","s","t","u","v","w","x","y","z"}

RECURSIVE lstrip(_)
lstrip(s) == IF s # <<>> /\ Head(s) \in Whitespace THEN lstrip(Tail(s)) ELSE s

RECURSIVE rstrip(_)
rstrip(s) == IF s # <<>> /\ s[Len(s)] \in Whitespace
             THEN rstrip(SubSeq(s, 1, Len(s) - 1)) ELSE s

\* str.strip()
strip(s) == rstrip(lstrip(s))

\* the first word of a text without leading whitespace
RECURSIVE first_word(_)
first_word(s) == IF s = <<>> \/ Head(s) \in Whitespace THEN <<>>
                 ELSE <<Head(s)>> \o first_word(Tail(s))

\* str.split(): the maximal runs of non-whitespace characters
RECURSIVE split(_)
split(s) == LET t == lstrip(s)
                w == first_word(t)
            IN IF t = <<>> THEN <<>>
               ELSE <<w>> \o split(SubSeq(t, Len(w) + 1, Len(t)))

\* str.isupper(): some cased character, and no lower-case one
isupper(s) == /\ \E n \in 1..Len(s) : s[n] \in UpperChars
              /\ \A n \in 1..Len(s) : s[n] \notin LowerChars

RECURSIVE Flatten(_)
Flatten(ss) == IF ss = <<>> THEN <<>> ELSE Head(ss) \o Flatten(Tail(ss))

Abs(x) == IF x < 0 THEN -x ELSE x

Max(a, b) == IF a >= b THEN a ELSE b

\* int(x / 5) for the exact quotient x / 5: truncation toward zero
TruncDiv5(x) == IF x >= 0 THEN x \div 5 ELSE -((-x) \div 5)

-----------------------------------------------------------------------------
(* ScreenshotProcessor helpers *)

_create_empty_line == [text |-> <<>>, left |-> 0, top |-> 0, height |-> 0,
                       confidence |-> 0, block_num |-> 0]

_is_new_line_inclusive(line, tok) ==
    /\ line.text # <<>>
    /\ \/ tok.block_num # line.block_num
       \/ Abs(tok.top - line.top) >= 10

_is_new_line_unguarded(line, tok) ==
    \/ tok.block_num # line.block_num
    \/ Abs(tok.top - line.top) > 10

_is_new_line(line, tok) ==
    /\ line.text # <<>>
    /\ \/ tok.block_num # line.block_num
       \/ Abs(tok.top - line.top) > 10

_create_line_from_data(tok, text) ==
    [text |-> text, left |-> tok.left, top |-> tok.top, height |-> tok.height,
     confidence |-> tok.conf, block_num |-> tok.block_num]

_append_overwrites_text(line, tok, text) ==
    IF line.text # <<>>
    THEN [line EXCEPT !.text = text]
    ELSE [line EXCEPT !.text = text, !.left = tok.left, !.top = tok.top,
                      !.height = tok.height, !.block_num = tok.block_num]

_append_tracks_last_token(line, tok, text) ==
    [line EXCEPT !.text = IF line.text # <<>> THEN @ \o <<" ">> \o text ELSE text,
                 !.left = tok.left, !.top = tok.top,
                 !.height = tok.height, !.block_num = tok.block_num]

_append_to_current_line(line, tok, text) ==
    IF line.text # <<>>
    THEN [line EXCEPT !.text = @ \o <<" ">> \o text]
    ELSE [line EXCEPT !.text = text, !.left = tok.left, !.top = tok.top,
                      !.height = tok.height, !.block_num = tok.block_num]

\* the two nested conditions that let a token through
passes_filter_inclusive(tok) ==
    /\ tok.conf >= CONFIDENCE_THRESHOLD
    /\ strip(tok.text) # <<>>

passes_filter(tok) ==
    /\ tok.conf > CONFIDENCE_THRESHOLD
    /\ strip(tok.text) # <<>>

estimate_font_size_rounded(height) == Max(8, (8 * height + 5) \div 10)

estimate_font_size_unfloored(height) == TruncDiv5(4 * height)

\* max(8, int(height * 0.8)); height * 0.8 is the quotient 4 * height / 5
estimate_font_size(height) == Max(8, TruncDiv5(4 * height))

determine_style_size_first(block) ==
    LET font_size == block.estimated_font_size
        text == block.text
        is_all_caps == isupper(text) /\ Len(split(text)) <= 15
        is_short_standalone == Len(split(text)) <= 6 /\ font_size >= 10
    IN IF font_size >= font_size_thresholds.heading1 THEN "heading1"
       ELSE IF font_size >= font_size_thresholds.heading2 THEN "heading2"
       ELSE IF font_size >= font_size_thresholds.heading3 THEN "heading3"
       ELSE IF is_all_caps /\ font_size < 14 THEN "header"
       ELSE IF is_short_standalone THEN "heading2"
       ELSE "body"

determine_style_without_short_rule(block) ==
    LET font_size == block.estimated_font_size
        text == block.text
        is_all_caps == isupper(text) /\ Len(split(text)) <= 15
    IN IF is_all_caps /\ font_size < 14 THEN "header"
       ELSE IF font_size >= font_size_thresholds.heading1 THEN "heading1"
       ELSE IF font_size >= font_size_thresholds.heading2 THEN "heading2"
       ELSE IF font_size >= font_size_thresholds.heading3 THEN "heading3"
       ELSE "body"

determine_style(block) ==
    LET font_size == block.estimated_font_size
        text == block.text
        is_all_caps == isupper(text) /\ Len(split(text)) <= 15
        is_short_standalone == Len(split(text)) <= 6 /\ font_size >= 10
    IN IF is_all_caps /\ font_size < 14 THEN "header"
       ELSE IF font_size >= font_size_thresholds.heading1 THEN "heading1"
       ELSE IF font_size >= font_size_thresholds.heading2 \/ is_short_standalone
            THEN "heading2"
       ELSE IF font_size >= font_size_thresholds.heading3 THEN "heading3"
       ELSE "body"


\* lines 59-61 for one block: the size is stored before the style reads it
styled(block) ==
    LET sized == block @@ [estimated_font_size |-> estimate_font_size(block.height)]
    IN sized @@ [style |-> determine_style(sized)]

\* lines 43-57 as a function of the token list: the loop state after the
\* first n tokens, and the sealed result
RECURSIVE loop_state(_, _)
loop_state(tokens, n) ==
    IF n = 0 THEN [blocks |-> <<>>, line |-> _create_empty_line]
    ELSE LET st == loop_state(tokens, n - 1)
             tok == tokens[n]
             text == strip(tok.text)
         IN IF ~passes_filter(tok) THEN st
            ELSE IF _is_new_line(st.line, tok)
                 THEN [blocks |-> Append(st.blocks, st.line),
                       line |-> _create_line_from_data(tok, text)]
                 ELSE [blocks |-> st.blocks,
                       line |-> _append_to_current_line(st.line, tok, text)]

assembled_lines(tokens) ==
    LET st == loop_state(tokens, Len(tokens))
    IN IF st.line.text # <<>> THEN Append(st.blocks, st.line) ELSE st.blocks

-----------------------------------------------------------------------------
(* Inputs: what pytesseract.image_to_data may return *)

BaseToken == [text |-> <<"A">>, left |-> 0, top |-> 5, height |-> 10,
              conf |-> 90, block_num |-> 1]

Texts == {<<"A">>, <<" ">>, <<" ", "b", " ">>, <<"1">>}
Lefts == {0, 7}
Tops == {5, 14, 15, 16}
Heights == {10, 17}
Confs == {90, 31, 30}
Blocks == {1, 2}

Fields == {"text", "left", "top", "height", "conf", "block_num"}

\* a rejected token and a blank token whose geometry differs from every other
NoiseToken == [text |-> <<"b">>, left |-> 7, top |-> 16, height |-> 17,
               conf |-> 30, block_num |-> 2]
BlankToken == [text |-> <<" ">>, left |-> 7, top |-> 16, height |-> 17,
               conf |-> 90, block_num |-> 2]
\* a structural row of the OCR table: no text, confidence -1
EmptyToken == [text |-> <<>>, left |-> 0, top |-> 0, height |-> 0,
               conf |-> -1, block_num |-> 0]

\* the tokens that differ from BaseToken in at most one field, and the three above
TokenSet ==
    {t \in [text : Texts, left : Lefts, top : Tops, height : Heights,
            conf : Confs, block_num : Blocks] :
        Cardinality({f \in Fields : t[f] # BaseToken[f]}) <= 1}
    \cup {NoiseToken, BlankToken, EmptyToken}

TokenInputs == UNION {[1..n -> TokenSet] : n \in 0..MaxTokens}

HeightRange == (-HeightBelow)..MaxHeight

\* two one-word lines in different blocks, of any two heights
HeightInputs ==
    {<<[BaseToken EXCEPT !.height = h1], [BaseToken EXCEPT !.height = h2, !.block_num = 2]>> :
        h1 \in HeightRange, h2 \in HeightRange}

\* one line of m equal words, of any height
WordInputs ==
    {[n \in 1..m |-> [BaseToken EXCEPT !.text = t, !.height = h]] :
        m \in 1..MaxWords, t \in {<<"A">>, <<"b">>, <<"1">>}, h \in HeightRange}

Word(t, top, height, conf) ==
    [text |-> t, left |-> 0, top |-> top, height |-> height, conf |-> conf,
     block_num |-> 1]

INTRODUCTION == <<"I","N","T","R","O","D","U","C","T","I","O","N">>

ScenarioTokens ==
    <<Word(INTRODUCTION, 0, 18, 90),
      Word(<<"T","h","i","s">>, 40, 15, 95),
      Word(<<"i","s">>, 40, 15, 95),
      Word(<<"b","o","d","y",".">>, 40, 15, 95)>>

Inputs == TokenInputs \cup HeightInputs \cup WordInputs \cup {ScenarioTokens}

-----------------------------------------------------------------------------
(* The parts of the state a specification does not exercise *)

Requests == {"r1", "r2"}

\* create_word_document has not been called
NoDocument ==
    /\ doc = <<>>
    /\ directives = <<>>
    /\ last_top = 0
    /\ last_block_num = -1
    /\ index = 0
    /\ run = 1
    /\ output = <<>>
    /\ first_output = <<>>

\* no request has arrived
NoRequest ==
    /\ files = [r \in Requests |-> <<>>]
    /\ rpc = [r \in Requests |-> "absent"]
    /\ file_id = [r \in Requests |-> 0]
    /\ upload_paths = [r \in Requests |-> <<>>]
    /\ response = [r \in Requests |-> <<>>]
    /\ uploads = {}
    /\ outputs = {}
    /\ issued = {}
    /\ invoked = {}
    /\ download = <<>>

-----------------------------------------------------------------------------
(* extract_text_with_layout as a state machine; i is the loop index of line *)
(* 46 (data[i + 1] here is data[...][i] there), k the index of line 59      *)

Init ==
    /\ data \in Inputs
    /\ i = 0
    /\ current_line = _create_empty_line
    /\ text_blocks = <<>>
    /\ k = 0
    /\ pc = "loop"
    /\ NoDocument
    /\ NoRequest

\* lines 47-49: the token is dropped
Discard ==
    /\ pc = "loop"
    /\ i < Len(data)
    /\ ~passes_filter(data[i + 1])
    /\ i' = i + 1
    /\ UNCHANGED <<data, current_line, text_blocks, k, pc>>
    /\ UNCHANGED <<document_vars, run_vars, api_vars>>

\* lines 50-52
StartNewLine ==
    /\ pc = "loop"
    /\ i < Len(data)
    /\ passes_filter(data[i + 1])
    /\ _is_new_line(current_line, data[i + 1])
    /\ text_blocks' = Append(text_blocks, current_line)
    /\ current_line' = _create_line_from_data(data[i + 1], strip(data[i + 1].text))
    /\ i' = i + 1
    /\ UNCHANGED <<data, k, pc>>
    /\ UNCHANGED <<document_vars, run_vars, api_vars>>

\* lines 53-54
AppendToLine ==
    /\ pc = "loop"
    /\ i < Len(data)
    /\ passes_filter(data[i + 1])
    /\ ~_is_new_line(current_line, data[i + 1])
    /\ current_line' = _append_to_current_line(current_line, data[i + 1],
                                               strip(data[i + 1].text))
    /\ i' = i + 1
    /\ UNCHANGED <<data, text_blocks, k, pc>>
    /\ UNCHANGED <<document_vars, run_vars, api_vars>>

SealLast_always_appends ==
    /\ pc = "loop"
    /\ i = Len(data)
    /\ text_blocks' = Append(text_blocks, current_line)
    /\ pc' = "style"
    /\ UNCHANGED <<data, i, current_line, k>>
    /\ UNCHANGED <<document_vars, run_vars, api_vars>>

\* lines 56-57
SealLast ==
    /\ pc = "loop"
    /\ i = Len(data)
    /\ text_blocks' = IF current_line.text # <<>>
                      THEN Append(text_blocks, current_line) ELSE text_blocks
    /\ pc' = "style"
    /\ UNCHANGED <<data, i, current_line, k>>
    /\ UNCHANGED <<document_vars, run_vars, api_vars>>

\* lines 59-61, one block
StyleBlock ==
    /\ pc = "style"
    /\ k < Len(text_blocks)
    /\ text_blocks' = [text_blocks EXCEPT ![k + 1] = styled(@)]
    /\ k' = k + 1
    /\ UNCHANGED <<data, i, current_line, pc>>
    /\ UNCHANGED <<document_vars, run_vars, api_vars>>

\* line 63
Return ==
    /\ pc = "style"
    /\ k = Len(text_blocks)
    /\ pc' = "done"
    /\ UNCHANGED <<data, i, current_line, text_blocks, k>>
    /\ UNCHANGED <<document_vars, run_vars, api_vars>>

Next ==
    \/ Discard
    \/ StartNewLine
    \/ AppendToLine
    \/ SealLast
    \/ StyleBlock
    \/ Return

Spec == Init /\ [][Next]_vars

-----------------------------------------------------------------------------
(* create_word_document and _add_paragraph_to_document *)

\* int(x / 10) for the exact quotient x / 10: truncation toward zero
TruncDiv10(x) == IF x >= 0 THEN x \div 10 ELSE -((-x) \div 10)

\* line 151
spacing_pixels(block, last) == IF last > 0 THEN block.top - last ELSE 0

spacing_before_rounded(block, last) ==
    Max(0, (3 * spacing_pixels(block, last) + 5) \div 10)

\* line 152: max(0, int(spacing_pixels * 0.3)); spacing_pixels * 0.3 is the
\* quotient 3 * spacing_pixels / 10
spacing_before(block, last) == Max(0, TruncDiv10(3 * spacing_pixels(block, last)))

\* line 153
is_new_paragraph(block, last, last_block) ==
    spacing_pixels(block, last) > 20 \/ block.block_num # last_block

BLACK == <<0, 0, 0>>

heading(block, level, space_before, space_after) ==
    [kind |-> "heading", level |-> level, text |-> block.text,
     size |-> block.estimated_font_size, bold |-> TRUE, name |-> "Calibri",
     color |-> BLACK, space_before |-> space_before, space_after |-> space_after,
     alignment |-> "LEFT"]

_add_paragraph_flat_floor(block, n, last, last_block) ==
    LET raw == spacing_before(block, last)
    IN CASE block.style = "header" ->
              [kind |-> "paragraph", text |-> block.text, size |-> 9,
               color |-> <<150, 150, 150>>, name |-> "Calibri",
               alignment |-> "CENTER", space_after |-> 6]
         [] block.style = "heading1" -> heading(block, 1, Max(12, raw), 8)
         [] block.style = "heading2" -> heading(block, 2, Max(12, raw), 6)
         [] block.style = "heading3" -> heading(block, 3, Max(12, raw), 4)
         [] OTHER ->
              [kind |-> "paragraph", text |-> block.text, size |-> 11,
               name |-> "Calibri", color |-> BLACK,
               space_before |-> Max(8, raw),
               space_after |-> 0, line_spacing_rule |-> "MULTIPLE",
               line_spacing |-> "1.15", alignment |-> "LEFT"]

\* lines 148-206: the paragraph added for block number n (from 0)
_add_paragraph_to_document(block, n, last, last_block) ==
    LET raw == spacing_before(block, last)
    IN CASE block.style = "header" ->
              [kind |-> "paragraph", text |-> block.text, size |-> 9,
               color |-> <<150, 150, 150>>, name |-> "Calibri",
               alignment |-> "CENTER", space_after |-> 6]
         [] block.style = "heading1" -> heading(block, 1, raw, 8)
         [] block.style = "heading2" -> heading(block, 2, Max(12, raw), 6)
         [] block.style = "heading3" -> heading(block, 3, Max(10, raw), 4)
         [] OTHER ->
              [kind |-> "paragraph", text |-> block.text, size |-> 11,
               name |-> "Calibri", color |-> BLACK,
               space_before |-> IF is_new_paragraph(block, last, last_block) /\ n > 0
                                THEN Max(8, raw) ELSE 0,
               space_after |-> 0, line_spacing_rule |-> "MULTIPLE",
               line_spacing |-> "1.15", alignment |-> "LEFT"]

\* the values of lines 151-153 for one call
locals(block, last, last_block) ==
    [spacing_pixels |-> spacing_pixels(block, last),
     spacing_before |-> spacing_before(block, last),
     is_new_paragraph |-> is_new_paragraph(block, last, last_block)]

BeginDocument_keeps_running_state ==
    /\ pc = "done"
    /\ doc' = <<>>
    /\ directives' = <<>>
    /\ index' = 0
    /\ pc' = "plan"
    /\ UNCHANGED <<last_top, last_block_num>>
    /\ UNCHANGED <<data, i, current_line, text_blocks, k, run_vars, api_vars>>

\* lines 122-126: a new Document, the running state seeded
BeginDocument ==
    /\ pc = "done"
    /\ doc' = <<>>
    /\ directives' = <<>>
    /\ last_top' = 0
    /\ last_block_num' = -1
    /\ index' = 0
    /\ pc' = "plan"
    /\ UNCHANGED <<data, i, current_line, text_blocks, k, run_vars, api_vars>>

AddParagraph_updates_state_first ==
    /\ pc = "plan"
    /\ index < Len(text_blocks)
    /\ LET block == text_blocks[index + 1]
           bottom == block.top + block.height
       IN /\ doc' = Append(doc, _add_paragraph_to_document(block, index, bottom,
                                                           block.block_num))
          /\ directives' = Append(directives, locals(block, bottom, block.block_num))
          /\ last_top' = bottom
          /\ last_block_num' = block.block_num
          /\ index' = index + 1
          /\ pc' = "plan"
    /\ UNCHANGED <<data, i, current_line, text_blocks, k, run_vars, api_vars>>

\* lines 128-131, one block; a paragraph of empty text has no run, and
\* p.runs[0] raises IndexError
AddParagraph ==
    /\ pc = "plan"
    /\ index < Len(text_blocks)
    /\ LET block == text_blocks[index + 1]
       IN IF block.text = <<>>
          THEN /\ pc' = "raised"
               /\ UNCHANGED document_vars
          ELSE /\ doc' = Append(doc, _add_paragraph_to_document(block, index, last_top,
                                                                last_block_num))
               /\ directives' = Append(directives,
                                       locals(block, last_top, last_block_num))
               /\ last_top' = block.top + block.height
               /\ last_block_num' = block.block_num
               /\ index' = index + 1
               /\ pc' = "plan"
    /\ UNCHANGED <<data, i, current_line, text_blocks, k, run_vars, api_vars>>

\* line 133
SaveDocument ==
    /\ pc = "plan"
    /\ index = Len(text_blocks)
    /\ output' = doc
    /\ pc' = "saved"
    /\ UNCHANGED <<data, i, current_line, text_blocks, k, document_vars, run,
                   first_output, api_vars>>

\* process_image is called once more on the same image, by the same
\* ScreenshotProcessor: lines 43-44 start the extraction afresh
ProcessAgain ==
    /\ pc = "saved"
    /\ run = 1
    /\ run' = 2
    /\ first_output' = output
    /\ output' = <<>>
    /\ text_blocks' = <<>>
    /\ current_line' = _create_empty_line
    /\ i' = 0
    /\ k' = 0
    /\ pc' = "loop"
    /\ UNCHANGED <<data, document_vars, api_vars>>

(* Inputs of process_image: lines by role, at chosen distances *)

\* the second line's top ranges over 0 .. MaxTop
MaxTop == 75
\* longest sequence of lines drawn from SmallLines
MaxLines == 3

\* (word, number of words, height): header, body, heading2, heading3, heading1
LineKinds == {<<"A", 1, 10>>, <<"b", 1, 10>>, <<"b", 1, 18>>, <<"b", 7, 18>>,
              <<"b", 1, 28>>}

LineTokens(kind, top, block) ==
    [n \in 1..kind[2] |->
        [text |-> <<kind[1]>>, left |-> 0, top |-> top, height |-> kind[3],
         conf |-> 90, block_num |-> block]]

\* a first line of bottom 10 or of bottom 0, and a second line anywhere
GapInputs ==
    {LineTokens(<<"b", 1, h>>, 0, 1) \o LineTokens(kind, top, block) :
        h \in {0, 10}, kind \in LineKinds, top \in 0..MaxTop, block \in {1, 2}}

SmallLines ==
    {LineTokens(<<"b", 1, 10>>, 0, 1), LineTokens(<<"b", 1, 10>>, 40, 1),
     LineTokens(<<"b", 1, 10>>, 55, 1), LineTokens(<<"A", 1, 10>>, 80, 2),
     LineTokens(<<"b", 1, 28>>, 120, 2)}

LineInputs ==
    {Flatten(ls) : ls \in UNION {[1..n -> SmallLines] : n \in 0..MaxLines}}

\* nothing survives the filter
RejectedInputs ==
    UNION {[1..n -> {NoiseToken, BlankToken, EmptyToken}] : n \in 0..MaxTokens}

ImageInputs == GapInputs \cup LineInputs \cup RejectedInputs

InitImage ==
    /\ data \in ImageInputs
    /\ i = 0
    /\ current_line = _create_empty_line
    /\ text_blocks = <<>>
    /\ k = 0
    /\ pc = "loop"
    /\ NoDocument
    /\ NoRequest

NextImage ==
    \/ Discard
    \/ StartNewLine
    \/ AppendToLine
    \/ SealLast
    \/ StyleBlock
    \/ Return
    \/ BeginDocument
    \/ AddParagraph
    \/ SaveDocument
    \/ ProcessAgain

\* process_image, called twice
SpecImage == InitImage /\ [][NextImage]_vars

-----------------------------------------------------------------------------
(* main.py: process_screenshots and download_file *)

\* most files of one request
MaxFiles == 2

\* a content type is <<type, subtype>>, <<>> when missing; a filename is
\* <<stem, suffix>>, <<>> when empty
PNG == [content_type |-> <<"image", "png">>, filename |-> <<"a", ".PNG">>]
JPG == [content_type |-> <<"image", "jpeg">>, filename |-> <<"b", ".jpg">>]
NoType == [content_type |-> <<>>, filename |-> <<"c", ".png">>]
Text == [content_type |-> <<"text", "plain">>, filename |-> <<"d", ".png">>]
NoName == [content_type |-> <<"image", "png">>, filename |-> <<>>]
GIF == [content_type |-> <<"image", "gif">>, filename |-> <<"e", ".gif">>]

FileKinds == {PNG, JPG, NoType, Text, NoName, GIF}

\* str.lower() on the suffixes in use
lower(suffix) == CASE suffix = ".PNG" -> ".png"
                   [] suffix = ".JPG" -> ".jpg"
                   [] OTHER -> suffix

\* line 56
SupportedFormats == {".jpg", ".jpeg", ".png", ".bmp", ".tiff", ".webp"}

\* Path(file.filename).suffix.lower()
file_extension(file) == lower(file.filename[2])

\* lines 49-57: the detail of the HTTPException raised for a file, or "ok"
validate(file) ==
    IF file.content_type = <<>> \/ file.content_type[1] # "image"
    THEN "must be an image"
    ELSE IF file.filename = <<>> THEN "Filename is required"
    ELSE IF file_extension(file) \notin SupportedFormats THEN "Unsupported format"
    ELSE "ok"

\* the values uuid.uuid4() can return; 0 below stands for a string that is
\* no uuid
Uuids == {1, 2}

uuid4_may_repeat(used) == Uuids

\* line 44: a uuid that was not issued before
uuid4(used) == Uuids \ used

\* line 59: UPLOAD_DIR / f"{file_id}_{len(upload_paths)}{file_extension}"
upload_path(fid, n, ext) == <<fid, n, ext>>

\* line 64: OUTPUT_DIR / f"{file_id}.docx"
output_path(fid) == <<fid>>

\* the file the loop of line 48 is at
current_file(r) == files[r][Len(upload_paths[r]) + 1]

\* the path line 59 computes for it
pending_path(r) ==
    upload_path(file_id[r], Len(upload_paths[r]), file_extension(current_file(r)))

HTTPException(status, detail) ==
    [type |-> "HTTPException", status |-> status, detail |-> detail]

except_clauses_wrap_all(exc) ==
    HTTPException(500, "Failed to process screenshots")

\* lines 75-79: what leaves the handler for an exception raised in the try
except_clauses(exc) ==
    IF exc.type = "HTTPException" THEN exc
    ELSE HTTPException(500, "Failed to process screenshots")

\* the methods of class ScreenshotProcessor
ProcessorMethods_with_process_images ==
    {"process_image", "process_images", "extract_text_with_layout",
     "estimate_font_size", "determine_style", "create_word_document"}

ProcessorMethods ==
    {"process_image", "extract_text_with_layout", "estimate_font_size",
     "determine_style", "create_word_document"}

\* process_image, lines 26-37: the image is unreadable (ValueError before
\* anything is written), the document is saved, or doc.save raises with the
\* output file created
ProcessOutcomes == {"saved", "unreadable", "save failed"}

Range(seq) == {seq[n] : n \in 1..Len(seq)}

\* lines 41-45
Start(r) ==
    /\ rpc[r] = "start"
    /\ IF files[r] = <<>>
       THEN /\ response' = [response EXCEPT ![r] = HTTPException(400, "No files provided")]
            /\ rpc' = [rpc EXCEPT ![r] = "responded"]
            /\ UNCHANGED <<file_id, issued>>
       ELSE /\ \E id \in uuid4(issued) :
                  /\ file_id' = [file_id EXCEPT ![r] = id]
                  /\ issued' = issued \cup {id}
            /\ rpc' = [rpc EXCEPT ![r] = "loop"]
            /\ UNCHANGED response
    /\ UNCHANGED <<files, upload_paths, uploads, outputs, invoked, download>>
    /\ UNCHANGED <<extract_vars, document_vars, run_vars>>

\* lines 48-59: the next file is rejected, or its path is computed and the
\* handler waits for file.read()
Validate(r) ==
    /\ rpc[r] = "loop"
    /\ Len(upload_paths[r]) < Len(files[r])
    /\ IF validate(current_file(r)) # "ok"
       THEN /\ response' = [response EXCEPT ![r] =
                    except_clauses(HTTPException(400, validate(current_file(r))))]
            /\ rpc' = [rpc EXCEPT ![r] = "finally"]
       ELSE /\ rpc' = [rpc EXCEPT ![r] = "read"]
            /\ UNCHANGED response
    /\ UNCHANGED <<files, file_id, upload_paths, uploads, outputs, issued, invoked,
                   download>>
    /\ UNCHANGED <<extract_vars, document_vars, run_vars>>

\* line 60: file.read() raises
ReadFails(r) ==
    /\ rpc[r] = "read"
    /\ response' = [response EXCEPT ![r] = except_clauses([type |-> "OSError"])]
    /\ rpc' = [rpc EXCEPT ![r] = "finally"]
    /\ UNCHANGED <<files, file_id, upload_paths, uploads, outputs, issued, invoked,
                   download>>
    /\ UNCHANGED <<extract_vars, document_vars, run_vars>>

\* lines 60-62: the bytes are read and written, the path is recorded
Write(r) ==
    /\ rpc[r] = "read"
    /\ uploads' = uploads \cup {pending_path(r)}
    /\ upload_paths' = [upload_paths EXCEPT ![r] = Append(@, pending_path(r))]
    /\ rpc' = [rpc EXCEPT ![r] = "loop"]
    /\ UNCHANGED <<files, file_id, response, outputs, issued, invoked, download>>
    /\ UNCHANGED <<extract_vars, document_vars, run_vars>>

\* line 60: write_bytes raises, before or after it created the file
WriteFails(r) ==
    /\ rpc[r] = "read"
    /\ \E created \in BOOLEAN :
          uploads' = IF created THEN uploads \cup {pending_path(r)} ELSE uploads
    /\ response' = [response EXCEPT ![r] = except_clauses([type |-> "OSError"])]
    /\ rpc' = [rpc EXCEPT ![r] = "finally"]
    /\ UNCHANGED <<files, file_id, upload_paths, outputs, issued, invoked, download>>
    /\ UNCHANGED <<extract_vars, document_vars, run_vars>>

\* lines 64-73: processor.process_images(...) is looked up and called
Process(r) ==
    /\ rpc[r] = "loop"
    /\ Len(upload_paths[r]) = Len(files[r])
    /\ IF "process_images" \in ProcessorMethods
       THEN /\ invoked' = invoked \cup {r}
            /\ \E outcome \in ProcessOutcomes :
                  /\ outputs' = IF outcome = "unreadable" THEN outputs
                                ELSE outputs \cup {output_path(file_id[r])}
                  /\ response' = [response EXCEPT ![r] =
                        IF outcome = "saved"
                        THEN [status |-> 200, success |-> TRUE,
                              file_id |-> file_id[r],
                              processed_count |-> Len(upload_paths[r]),
                              download_url |-> <<"/download/", file_id[r]>>]
                        ELSE except_clauses([type |-> "Exception"])]
       ELSE /\ response' = [response EXCEPT ![r] =
                              except_clauses([type |-> "AttributeError"])]
            /\ UNCHANGED <<invoked, outputs>>
    /\ rpc' = [rpc EXCEPT ![r] = "finally"]
    /\ UNCHANGED <<files, file_id, upload_paths, uploads, issued, download>>
    /\ UNCHANGED <<extract_vars, document_vars, run_vars>>

\* lines 80-83, then the response leaves
Cleanup(r) ==
    /\ rpc[r] = "finally"
    /\ uploads' = uploads \ Range(upload_paths[r])
    /\ rpc' = [rpc EXCEPT ![r] = "responded"]
    /\ UNCHANGED <<files, file_id, upload_paths, response, outputs, issued, invoked,
                   download>>
    /\ UNCHANGED <<extract_vars, document_vars, run_vars>>

\* download_file, lines 85-100, once
Download(id) ==
    /\ download = <<>>
    /\ download' = IF id \notin Uuids THEN <<id, 400>>
                   ELSE IF output_path(id) \notin outputs THEN <<id, 404>>
                   ELSE <<id, 200>>
    /\ UNCHANGED <<files, rpc, file_id, upload_paths, response, uploads, outputs,
                   issued, invoked>>
    /\ UNCHANGED <<extract_vars, document_vars, run_vars>>

FileLists(kinds, least) == UNION {[1..n -> kinds] : n \in least..MaxFiles}

NoImage ==
    /\ data = <<>>
    /\ i = 0
    /\ current_line = _create_empty_line
    /\ text_blocks = <<>>
    /\ k = 0
    /\ pc = "idle"
    /\ NoDocument

\* one request with any files, or two concurrent requests
InitApi ==
    /\ NoImage
    /\ \/ /\ files \in [Requests -> FileLists(FileKinds, 0)]
          /\ files["r2"] = <<>>
          /\ rpc = [r \in Requests |-> IF r = "r1" THEN "start" ELSE "absent"]
       \/ /\ files \in [Requests -> FileLists({PNG, GIF}, 1)]
          /\ rpc = [r \in Requests |-> "start"]
    /\ file_id = [r \in Requests |-> 0]
    /\ upload_paths = [r \in Requests |-> <<>>]
    /\ response = [r \in Requests |-> <<>>]
    /\ uploads = {}
    /\ outputs = {}
    /\ issued = {}
    /\ invoked = {}
    /\ download = <<>>

NextApi ==
    \/ \E r \in Requests : Start(r)
    \/ \E r \in Requests : Validate(r)
    \/ \E r \in Requests : ReadFails(r)
    \/ \E r \in Requests : Write(r)
    \/ \E r \in Requests : WriteFails(r)
    \/ \E r \in Requests : Process(r)
    \/ \E r \in Requests : Cleanup(r)
    \/ \E id \in {0} \cup Uuids : Download(id)

SpecApi == InitApi /\ [][NextApi]_vars

-----------------------------------------------------------------------------
(* Vocabulary of the properties *)

\* a surviving token: confidence above 30 and a non-empty trimmed text
Surviving(tok) == tok.conf > 30 /\ strip(tok.text) # <<>>

\* the surviving tokens among those the loop has consumed
Survivors == SelectSeq(SubSeq(data, 1, i), Surviving)

\* the lines built so far: the sealed ones, then the accumulator while the
\* loop still holds text in it
AllLines == IF pc = "loop" /\ current_line.text # <<>>
            THEN Append(text_blocks, current_line) ELSE text_blocks

WordsOf(line) == split(line.text)

RECURSIVE WordsBefore(_)
WordsBefore(j) == IF j <= 1 THEN 0
                  ELSE WordsBefore(j - 1) + Len(WordsOf(AllLines[j - 1]))

\* the first surviving token that contributed to line j
FirstTokenOf(j) == Survivors[WordsBefore(j) + 1]

\* what a Line is, apart from its confidence and its styling
Geometry(lines) ==
    [j \in 1..Len(lines) |->
        [text |-> lines[j].text, left |-> lines[j].left, top |-> lines[j].top,
         height |-> lines[j].height, block_num |-> lines[j].block_num]]

\* text_blocks[1..k] carry estimated_font_size and style
StyledBlocks == 1..k

-----------------------------------------------------------------------------
(* C1 - C10 *)

\* C1: every surviving token contributes its trimmed text to exactly one
\* line, in order: the words of all lines, concatenated in output order, are
\* exactly the trimmed texts of the surviving tokens consumed so far.
C1_EverySurvivorOnceInOrder ==
    Flatten([j \in 1..Len(AllLines) |-> WordsOf(AllLines[j])])
        = [n \in 1..Len(Survivors) |-> strip(Survivors[n].text)]

\* three survivors, one of them trimmed, in two lines, the first of two words
C1_Witness ==
    /\ pc = "done"
    /\ Len(Survivors) = 3
    /\ Len(text_blocks) = 2
    /\ Len(WordsOf(text_blocks[1])) = 2
    /\ \E n \in 1..3 : Survivors[n].text # strip(Survivors[n].text)

\* C2: tokens with confidence <= 30 or empty trimmed text affect nothing:
\* the lines (text, left, top, height, block id, boundaries) are those of
\* assembling the token sequence with these tokens removed.
C2_DiscardedTokensInvisible ==
    Geometry(AllLines) = Geometry(assembled_lines(Survivors))

\* a rejected token of foreign geometry and block between two merged words
C2_Witness ==
    /\ pc = "done"
    /\ Len(data) = 3
    /\ data[2] = NoiseToken
    /\ Surviving(data[1]) /\ Surviving(data[3])
    /\ Len(text_blocks) = 1

\* the first surviving token of the line in the accumulator
FirstTokenOfCurrent == Survivors[Len(Survivors) - Len(WordsOf(current_line)) + 1]

\* C3: a surviving token starts a new line iff the accumulator is non-empty
\* and the token's block differs from the line's, or its top differs from the
\* top of the line's first token by more than 10 (10 merges, 11 splits; tops
\* 5 and 14 merge, tops 5 and 16 split).
C3_NewLineRule ==
    /\ [][(pc = "loop" /\ i < Len(data) /\ Surviving(data[i + 1])) =>
            ((Len(text_blocks') = Len(text_blocks) + 1) <=>
                (/\ current_line.text # <<>>
                 /\ \/ data[i + 1].block_num # FirstTokenOfCurrent.block_num
                    \/ Abs(data[i + 1].top - FirstTokenOfCurrent.top) > 10))]_vars
    /\ [](  (/\ pc = "done" /\ Len(data) = 2
             /\ Surviving(data[1]) /\ Surviving(data[2])
             /\ data[1].block_num = data[2].block_num /\ data[1].top = 5)
          => /\ data[2].top \in {14, 15} => Len(text_blocks) = 1
             /\ data[2].top = 16 => Len(text_blocks) = 2)

\* tops 5, 15, 16 in one block: 15 merges (10 from the first token), 16
\* splits (11 from the first token, 1 from the previous one)
C3_Witness ==
    /\ pc = "done"
    /\ Len(data) = 3
    /\ \A n \in 1..3 : Surviving(data[n]) /\ data[n].block_num = 1
    /\ data[1].top = 5 /\ data[2].top = 15 /\ data[3].top = 16
    /\ Len(text_blocks) = 2
    /\ Len(WordsOf(text_blocks[1])) = 2

\* C4: every line of the output sequence has non-empty text, in every state.
C4_NoEmptyLine ==
    \A j \in 1..Len(text_blocks) : text_blocks[j].text # <<>>

\* the first surviving token (block 1, unlike the empty accumulator's 0)
\* sealed nothing, and two lines were sealed later
C4_Witness ==
    /\ pc = "style"
    /\ Len(data) >= 1 /\ Surviving(data[1])
    /\ data[1].block_num # _create_empty_line.block_num
    /\ Len(text_blocks) = 2

\* C5: every line's confidence is the confidence of the first surviving
\* token that contributed to it, the first line of the document included.
C5_ConfidenceOfFirstToken ==
    \A j \in 1..Len(AllLines) : AllLines[j].confidence = FirstTokenOf(j).conf

\* C6: every line's left, top, height and block id are those of the first
\* surviving token that contributed to it; later tokens change only the text.
C6_GeometryOfFirstToken ==
    \A j \in 1..Len(AllLines) :
        /\ AllLines[j].left = FirstTokenOf(j).left
        /\ AllLines[j].top = FirstTokenOf(j).top
        /\ AllLines[j].height = FirstTokenOf(j).height
        /\ AllLines[j].block_num = FirstTokenOf(j).block_num

\* one line of three words whose later tokens differ in left, top and height
C6_Witness ==
    /\ pc = "done"
    /\ Len(text_blocks) = 1
    /\ Len(Survivors) = 3
    /\ Survivors[1] = BaseToken
    /\ \E n \in 2..3 : Survivors[n].left # BaseToken.left
    /\ \E n \in 2..3 : Survivors[n].height # BaseToken.height \/ Survivors[n].top # BaseToken.top

\* height * 0.8 rounded to the nearest integer (8 * h + 5 is odd: no ties)
RoundScaled(h) == (8 * h + 5) \div 10

\* C7 as stated: the estimate is max(8, round(height * 0.8)).
C7_EstimateIsRounded ==
    \A j \in StyledBlocks :
        text_blocks[j].estimated_font_size = Max(8, RoundScaled(text_blocks[j].height))

\* C7 amended: the estimate is max(8, int(height * 0.8)), the scaled height
\* truncated: the estimate s is 8 when 0.8 * height < 9, and otherwise the
\* integer with s <= 0.8 * height < s + 1.
C7_EstimateIsTruncated ==
    \A j \in StyledBlocks :
        LET s == text_blocks[j].estimated_font_size
            h == text_blocks[j].height
        IN IF 4 * h < 45 THEN s = 8
           ELSE 5 * s <= 4 * h /\ 4 * h < 5 * s + 5

\* height 17: 13.6 is estimated as 13
C7_Witness ==
    \E j \in StyledBlocks :
        text_blocks[j].height = 17 /\ text_blocks[j].estimated_font_size = 13

\* C8: the estimate is monotonic in the height and never below 8.
C8_EstimateMonotoneFloored ==
    /\ \A j \in StyledBlocks : text_blocks[j].estimated_font_size >= 8
    /\ \A j1, j2 \in StyledBlocks :
          text_blocks[j1].height < text_blocks[j2].height
              => text_blocks[j1].estimated_font_size <= text_blocks[j2].estimated_font_size

\* a line of negative height and a taller one of a larger estimate
C8_Witness ==
    /\ pc = "done"
    /\ Len(text_blocks) = 2
    /\ text_blocks[1].height < 0
    /\ text_blocks[1].estimated_font_size = 8
    /\ text_blocks[2].estimated_font_size >= 22

\* the role the precedence list of C9 gives
RoleByPrecedence(upper, words, size) ==
    LET header == upper /\ words <= 15 /\ size < 14
        short == words <= 6 /\ size >= 10
    IN CASE header -> "header"
         [] ~header /\ size >= 22 -> "heading1"
         [] ~header /\ size < 22 /\ (size >= 18 \/ short) -> "heading2"
         [] ~header /\ size < 18 /\ ~short /\ size >= 14 -> "heading3"
         [] OTHER -> "body"

\* C9: the role of a line is the first match of HEADER, HEADING1, HEADING2,
\* HEADING3, BODY, decided by upper-case text, word count and estimated size.
C9_RoleByPrecedence ==
    \A j \in StyledBlocks :
        text_blocks[j].style =
            RoleByPrecedence(isupper(text_blocks[j].text),
                             Len(WordsOf(text_blocks[j])),
                             text_blocks[j].estimated_font_size)

\* an upper-case line that also matches the short-phrase rule of HEADING2
C9_Witness ==
    \E j \in StyledBlocks :
        /\ text_blocks[j].style = "header"
        /\ Len(WordsOf(text_blocks[j])) <= 6
        /\ text_blocks[j].estimated_font_size >= 10

THIS_IS_BODY == <<"T","h","i","s"," ","i","s"," ","b","o","d","y",".">>

ScenarioLines(role1, role2) ==
    /\ Len(text_blocks) = 2
    /\ text_blocks[1].text = INTRODUCTION
    /\ text_blocks[1].top = 0
    /\ text_blocks[1].estimated_font_size = 14
    /\ text_blocks[1].style = role1
    /\ text_blocks[2].text = THIS_IS_BODY
    /\ text_blocks[2].top = 40
    /\ text_blocks[2].estimated_font_size = 12
    /\ text_blocks[2].style = role2

\* C10 as stated: the scenario gives the lines INTRODUCTION (size 14,
\* HEADING3) and "This is body." (size 12, BODY).
C10_ScenarioAsStated ==
    (data = ScenarioTokens /\ pc = "done") => ScenarioLines("heading3", "body")

\* C10 amended: the scenario gives the same two lines and sizes, and both
\* lines are HEADING2: each has at most 6 words and a size of at least 10.
C10_ScenarioBothHeading2 ==
    (data = ScenarioTokens /\ pc = "done") => ScenarioLines("heading2", "heading2")

C10_Witness == data = ScenarioTokens /\ pc = "done"

-----------------------------------------------------------------------------
(* C11, C12, C16 - C18: process_image *)

\* create_word_document is running or has saved: doc[n] and directives[n]
\* belong to text_blocks[n]
Planning == pc \in {"plan", "saved"}

\* last_bottom and last_block_id as line n - 1 leaves them (the seed for n = 1)
PrevBottom(n) == IF n = 1 THEN 0 ELSE text_blocks[n - 1].top + text_blocks[n - 1].height

PrevBlock(n) == IF n = 1 THEN -1 ELSE text_blocks[n - 1].block_num

VerticalGap(n) == IF PrevBottom(n) > 0 THEN text_blocks[n].top - PrevBottom(n) ELSE 0

\* C11: the pipeline run twice on the same token sequence gives the same
\* paragraphs: nothing of the first call reaches the second.
C11_SameDocumentTwice ==
    (pc = "saved" /\ run = 2) => output = first_output

\* a second call that starts from a running state the first call left
\* behind (a bottom above 0, another block), with two paragraphs each time
C11_Witness ==
    /\ pc = "saved"
    /\ run = 2
    /\ Len(output) = 2
    /\ output[1].kind = "heading"
    /\ text_blocks[1].top > last_top + 20
    /\ text_blocks[1].block_num # last_block_num

NoSurvivor == \A n \in 1..Len(data) : ~Surviving(data[n])

\* C12: when no token survives, there is no line and no paragraph, and the
\* document is created without an error: each call runs on to the save.
C12_EmptyResultIsNoError ==
    NoSurvivor =>
        /\ text_blocks = <<>>
        /\ doc = <<>>
        /\ output = <<>>
        /\ pc # "raised"
        /\ (pc = "saved" /\ run = 2) \/ ENABLED NextImage

\* an empty document saved from rejected tokens, one of them with a text
C12_Witness ==
    /\ pc = "saved"
    /\ NoSurvivor
    /\ Len(data) >= 2
    /\ \E n \in 1..Len(data) : strip(data[n].text) # <<>>
    /\ \E n \in 1..Len(data) : data[n].conf > 30

\* C16 as stated: spacing_before_raw is max(0, r) for an integer r nearest
\* to vertical_gap * 0.3.
C16_RawIsRounded ==
    Planning =>
        \A n \in 1..Len(directives) :
            LET raw == directives[n].spacing_before
                g == VerticalGap(n)
            IN /\ raw >= 0
               /\ raw > 0 => Abs(10 * raw - 3 * g) <= 5
               /\ raw = 0 => 3 * g <= 5

\* C16 amended: spacing_before_raw is max(0, int(vertical_gap * 0.3)), the
\* scaled gap truncated: 0 when vertical_gap * 0.3 < 1, and otherwise the
\* integer with raw <= vertical_gap * 0.3 < raw + 1.
C16_RawIsTruncated ==
    Planning =>
        \A n \in 1..Len(directives) :
            LET raw == directives[n].spacing_before
                g == VerticalGap(n)
            IN IF 3 * g < 10 THEN raw = 0
               ELSE 10 * raw <= 3 * g /\ 3 * g < 10 * raw + 10

\* a gap of 42 gives 12, and an earlier line of bottom 0 gives gap 0
C16_Witness ==
    /\ Planning
    /\ \E n \in 1..Len(directives) :
          VerticalGap(n) = 42 /\ directives[n].spacing_before = 12

\* C17: the spacing before a paragraph by role: none for HEADER (a fixed
\* space after only), raw for HEADING1, max(12, raw) for HEADING2,
\* max(10, raw) for HEADING3, and for BODY max(8, raw) when it starts a new
\* paragraph and is not the first line, 0 otherwise.
C17_SpacingByRole ==
    Planning =>
        \A n \in 1..Len(doc) :
            LET raw == directives[n].spacing_before
                role == text_blocks[n].style
                p == doc[n]
            IN /\ role = "header" =>
                     "space_before" \notin DOMAIN p /\ p.space_after = 6
               /\ role = "heading1" => p.space_before = raw
               /\ role = "heading2" => p.space_before = Max(12, raw)
               /\ role = "heading3" => p.space_before = Max(10, raw)
               /\ role = "body" =>
                     p.space_before =
                        IF directives[n].is_new_paragraph /\ n > 1
                        THEN Max(8, raw) ELSE 0

\* a first body line, a heading1 that keeps a raw value below every floor
C17_Witness ==
    /\ pc = "saved"
    /\ Len(doc) = 2
    /\ text_blocks[1].style = "body" /\ directives[1].is_new_paragraph
    /\ doc[1].space_before = 0
    /\ text_blocks[2].style = "heading1"
    /\ doc[2].space_before \in 1..7

\* C18: the directive of line n is computed from the state line n - 1 left
\* (the seed for the first line), the state is updated after it, and a line
\* continues the paragraph iff neither the gap exceeds 20 nor the block
\* differs: never the first line, never a line of another block.
C18_DirectiveFromPreviousLine ==
    Planning =>
        /\ index = Len(directives)
        /\ last_top = PrevBottom(index + 1)
        /\ last_block_num = PrevBlock(index + 1)
        /\ \A n \in 1..Len(directives) :
              LET d == directives[n]
              IN /\ d.spacing_pixels = VerticalGap(n)
                 /\ d.is_new_paragraph <=>
                       (VerticalGap(n) > 20 \/ text_blocks[n].block_num # PrevBlock(n))
                 /\ n = 1 => d.is_new_paragraph
                 /\ (n > 1 /\ text_blocks[n].block_num # text_blocks[n - 1].block_num)
                       => d.is_new_paragraph

\* three lines: the second starts a paragraph (gap 30), the third continues it
C18_Witness ==
    /\ pc = "saved"
    /\ Len(directives) = 3
    /\ directives[2].is_new_paragraph
    /\ ~directives[3].is_new_paragraph
    /\ VerticalGap(3) # text_blocks[3].top - PrevBottom(2)

-----------------------------------------------------------------------------
(* C13 - C15, C19, C20: main.py *)

Responded(r) == rpc[r] = "responded"

AllValid(fs) == \A n \in 1..Len(fs) : validate(fs[n]) = "ok"

\* the first file of fs that validation rejects
FirstInvalid(fs) ==
    CHOOSE n \in 1..Len(fs) :
        validate(fs[n]) # "ok" /\ \A m \in 1..(n - 1) : validate(fs[m]) = "ok"

\* the upload paths a request has written or is about to write
PathsOf(r) ==
    Range(upload_paths[r]) \cup (IF rpc[r] = "read" THEN {pending_path(r)} ELSE {})

\* C13: once a request has been answered, on any exit path, no upload file
\* created for it exists, a file whose write failed before its path was
\* recorded included.
C13_NoUploadLeft ==
    \A r \in Requests :
        (Responded(r) /\ file_id[r] # 0) =>
            \A p \in uploads : p[1] # file_id[r]

C15_DistinctArtifacts ==
    /\ [](\A r \in Requests :
            /\ \A m, n \in 1..Len(upload_paths[r]) :
                  m # n => upload_paths[r][m] # upload_paths[r][n]
            /\ rpc[r] = "read" => pending_path(r) \notin Range(upload_paths[r])
            /\ \A q \in Requests \ {r} :
                  /\ PathsOf(r) \cap PathsOf(q) = {}
                  /\ (file_id[r] # 0 /\ file_id[q] # 0)
                        => output_path(file_id[r]) # output_path(file_id[q]))
    /\ [][\A p \in uploads \ uploads' :
            \E r \in Requests :
                /\ rpc[r] = "finally" /\ rpc'[r] = "responded"
                /\ p \in Range(upload_paths[r])
                /\ \A q \in Requests \ {r} : p \notin PathsOf(q)]_vars

\* both requests wait for a read, each with one file of the same index and
\* extension written
C15_Witness ==
    /\ rpc["r1"] = "read" /\ rpc["r2"] = "read"
    /\ Len(upload_paths["r1"]) = 1 /\ Len(upload_paths["r2"]) = 1
    /\ upload_paths["r1"][1][3] = upload_paths["r2"][1][3]
    /\ Cardinality(uploads) = 2

\* C19: a request whose files all pass validation and are all uploaded is
\* answered with success and the number of files, the processor having
\* been called, and its output file exists for a following download.
C19_ValidRequestSucceeds ==
    \A r \in Requests :
        (/\ Responded(r)
         /\ files[r] # <<>>
         /\ AllValid(files[r])
         /\ Len(upload_paths[r]) = Len(files[r]))
        => /\ response[r].status = 200
           /\ response[r].processed_count = Len(files[r])
           /\ r \in invoked
           /\ output_path(file_id[r]) \in outputs

\* C20: when the handler comes to a file that fails validation, the request
\* ends with 400 (not 500), the processor is not called, no output file is
\* created and the files written before are deleted.
C20_ValidationFailureIs400 ==
    \A r \in Requests :
        (/\ Responded(r)
         /\ files[r] # <<>>
         /\ ~AllValid(files[r])
         /\ Len(upload_paths[r]) = FirstInvalid(files[r]) - 1)
        => /\ response[r].status = 400
           /\ response[r].detail = validate(files[r][FirstInvalid(files[r])])
           /\ r \notin invoked
           /\ output_path(file_id[r]) \notin outputs
           /\ Range(upload_paths[r]) \cap uploads = {}

\* the second file was rejected after the first was written, and deleted
C20_Witness ==
    /\ Responded("r1")
    /\ response["r1"].status = 400
    /\ Len(upload_paths["r1"]) = 1
    /\ uploads = {}

=============================================================================
